---- MODULE Spec2Model ----
(***************************************************************************)
(* Model of the AI route service: the gRPC boundary AIService.GeneratePlan *)
(* (grpc_server.py) on top of MainTripPlannerAgent (ai_agents.py), which   *)
(* runs one research agent per theme, extracts camp entries from the text  *)
(* each one returns and serialises a three-option JSON document.           *)
(*                                                                         *)
(* Strings are sequences of atoms, so that f-strings are concatenations.   *)
(* Calendar dates are the ordinals 0..MaxOrd; a date string is the padded  *)
(* or unpadded rendering of an ordinal, or a string that is no date.       *)
(* Floats are integers counted in tenths (39.0 is 390, 39.1 is 391).       *)
(* JSON / Python values are tagged records [t, v].                         *)
(***************************************************************************)
EXTENDS Integers, Sequences, FiniteSets, TLC

VARIABLES request, pc, prompt_data, trip_data, idx, research_results,
          calls, outcomes, ai_response, response, status_code, branch

vars == <<request, pc, prompt_data, trip_data, idx, research_results,
          calls, outcomes, ai_response, response, status_code, branch>>

\* ------------------------------------------------------------------ bounds
\* Last ordinal of the calendar (the model's date.max).
MaxOrd == 3
\* Largest number of camps a generated text holds.
MaxCamps == 3

\* --------------------------------------------------------------- constants
\* Number of themes registered in MainTripPlannerAgent.researchers.
K == 3
\* Default coordinates, in tenths.
DefaultLat == 390
DefaultLon == 350
\* total_days of a fallback whose dates do not parse / of the boundary fallback.
FallbackTotalDays == 3

Min(a, b) == IF a <= b THEN a ELSE b
Max(a, b) == IF a >= b THEN a ELSE b

\* ----------------------------------------------------------- JSON values
JStr(s) == [t |-> "str", v |-> s]
JInt(n) == [t |-> "int", v |-> n]
JNum(x) == [t |-> "float", v |-> x]
JList(s) == [t |-> "list", v |-> s]
JDict(f) == [t |-> "dict", v |-> f]
JNull == [t |-> "null", v |-> <<>>]

\* json.dumps of a value: the text of a JSON document.
JsonDumps(value) == [kind |-> "json", val |-> value]
\* A text json.loads rejects with JSONDecodeError.
NotJson == [kind |-> "garbage", val |-> JNull]

\* ------------------------------------------------------------------ dates
\* "%Y-%m-%d" rendering of an ordinal, zero-padded as strftime writes it.
Padded(o) == <<"iso-padded", ToString(o)>>
\* The same date written without zero padding ("2024-6-1"); strptime reads it.
Unpadded(o) == <<"iso-unpadded", ToString(o)>>
\* A string strptime rejects.
BadDate == <<"not-a-date">>

\* datetime.strptime(s, "%Y-%m-%d") succeeds.
ParsesAsDate(s) == \E o \in 0..MaxOrd : s = Padded(o) \/ s = Unpadded(o)
\* datetime.strptime(s, "%Y-%m-%d"), for a string it accepts.
strptime(s) == CHOOSE o \in 0..MaxOrd : s = Padded(o) \/ s = Unpadded(o)
\* datetime.strftime("%Y-%m-%d").
strftime(o) == Padded(o)
\* start + timedelta(days = d) stays inside the calendar (else OverflowError).
AddDaysOK(o, d) == o + d \in 0..MaxOrd

\* ----------------------------------------------------------------- themes
\* Keys of MainTripPlannerAgent.researchers, in insertion order.
AgentNames == <<"dogal", "tarihi", "macera">>

ThemeName(a) ==
    CASE a = "dogal" -> <<"Dogal Guzellikler Rotasi">>
      [] a = "tarihi" -> <<"Tarihi Guzellikler Rotasi">>
      [] a = "macera" -> <<"Macera ve Aksiyon Rotasi">>

ThemeDescription(a) ==
    CASE a = "dogal" -> <<"Goller, selaleler ve ormanlik alanlar">>
      [] a = "tarihi" -> <<"Antik kentler, kaleler ve tarihi yapilar">>
      [] a = "macera" -> <<"Dagcilik, rafting, yamac parasutu">>

\* theme_info.get(agent_name, {...}) of _create_json_from_research.
theme_info(a) ==
    IF a \in {"dogal", "tarihi", "macera"}
    THEN [theme |-> ThemeName(a), description |-> ThemeDescription(a)]
    ELSE [theme |-> <<"Bilinmeyen Tema">>,
          description |-> <<"Tema aciklamasi bulunamadi">>]

\* ------------------------------------------------------- generated texts
\* A text is a sequence of lines; a line is "KAMP YERI n:" (marker), one of
\* the "- key: value" field lines, or any other line.
Line(k, v) == [k |-> k, v |-> v]

FloatText(x) == <<"float", ToString(x)>>
KnownFloats == {385, 301}
\* float(s) succeeds.
IsFloat(s) == \E x \in KnownFloats : s = FloatText(x)
\* float(s), for a string it accepts.
FloatOf(s) == CHOOSE x \in KnownFloats : s = FloatText(x)

CampName(i) == <<"Camping", ToString(i)>>
CampAddr(i) == <<"Adres", ToString(i)>>

\* n camps, each introduced by the block marker.
RECURSIVE BlockText(_)
BlockText(n) ==
    IF n = 0 THEN <<>>
    ELSE BlockText(n - 1) \o
         <<Line("marker", <<>>), Line("isim", CampName(n)), Line("adres", CampAddr(n))>>

\* n camps listed as field lines without any block marker.
RECURSIVE ScanText(_)
ScanText(n) ==
    IF n = 0 THEN <<>>
    ELSE ScanText(n - 1) \o <<Line("isim", CampName(n)), Line("adres", CampAddr(n))>>

\* The atom standing for a lone surrogate ("\ud800" in the model's output):
\* a str that json writes and reads back and a protobuf string field refuses.
LoneSurrogate == "lone-surrogate"

Texts ==
    {BlockText(n) : n \in 1..MaxCamps} \cup
    { ScanText(MaxCamps),
      <<Line("adres", CampAddr(1)), Line("latitude", <<"north">>)>>,
      <<Line("marker", <<>>), Line("isim", CampName(1)),
        Line("latitude", FloatText(385)), Line("longitude", <<"east">>)>>,
      <<Line("marker", <<>>), Line("isim", CampName(1)),
        Line("marker", <<>>), Line("isim", <<LoneSurrogate>>)>> }

\* Messages of the exceptions agent.run raises.
ErrorMessages ==
    { <<Line("other", <<"connection refused">>)>>,
      <<Line("other", <<"parsing failed, model output was">>), Line("marker", <<>>),
        Line("isim", CampName(1)), Line("adres", CampAddr(1))>>,
      <<Line("other", <<"bad output">>), Line("isim", CampName(1)),
        Line("isim", CampName(2))>> }

\* What self.agent.run(user_prompt) does: returns a text, returns None, raises.
Outcomes ==
    [kind : {"returns"}, text : Texts] \cup
    {[kind |-> "nothing", text |-> <<>>]} \cup
    [kind : {"raises"}, text : ErrorMessages]

\* --------------------------------------------- ThemeSpecialistAgent
\* f"{theme} arastirmasi sirasinda hata: {str(e)}": the first line of the
\* message continues the prefix line. A block marker is still found inside
\* it; a field line no longer starts with its key.
MergeLine(prefix, l) ==
    IF l.k = "marker" THEN l ELSE Line("other", prefix \o l.v)

\* ThemeSpecialistAgent.research_camps: the text handed back for an outcome
\* of agent.run. No exception leaves it.
research_camps(a, outcome) ==
    LET theme == ThemeName(a)
        prefix == theme \o <<" arastirmasi sirasinda hata: ">>
        msg == outcome.text
    IN  CASE outcome.kind = "returns" /\ outcome.text # <<>> -> outcome.text
          [] outcome.kind = "returns" /\ outcome.text = <<>> ->
                <<Line("other", theme \o <<" icin arastirma tamamlanamadi.">>)>>
          [] outcome.kind = "nothing" ->
                <<Line("other", theme \o <<" icin arastirma tamamlanamadi.">>)>>
          [] outcome.kind = "raises" ->
                IF msg = <<>> THEN <<Line("other", prefix)>>
                ELSE <<MergeLine(prefix, msg[1])>> \o Tail(msg)

\* ------------------------------------------------ Python dict helpers
EmptyDict == [k \in {} |-> <<>>]
\* d[k] = v
DictPut(d, k, v) == [x \in DOMAIN d \cup {k} |-> IF x = k THEN v ELSE d[x]]
\* d.get(k, default)
DictGet(d, k, default) == IF k \in DOMAIN d THEN d[k] ELSE default
\* seq[:n], with Python's meaning of a negative n.
PySlice(seq, n) ==
    IF n >= 0 THEN SubSeq(seq, 1, Min(n, Len(seq)))
    ELSE SubSeq(seq, 1, Max(0, Len(seq) + n))

\* --------------------------------------------- MainTripPlannerAgent
\* _parse_camp_text: the fields of one block, over the defaults.
ParseCampLine(info, l) ==
    CASE l.k = "isim" -> [info EXCEPT !.name = l.v]
      [] l.k = "adres" -> [info EXCEPT !.address = l.v]
      [] l.k = "web" -> [info EXCEPT !.site_url = l.v]
      [] l.k = "latitude" ->
            IF IsFloat(l.v) THEN [info EXCEPT !.latitude = FloatOf(l.v)] ELSE info
      [] l.k = "longitude" ->
            IF IsFloat(l.v) THEN [info EXCEPT !.longitude = FloatOf(l.v)] ELSE info
      [] OTHER -> info

RECURSIVE ParseCampLines(_, _)
ParseCampLines(lines, info) ==
    IF lines = <<>> THEN info
    ELSE ParseCampLines(Tail(lines), ParseCampLine(info, Head(lines)))

_parse_camp_text(camp_text) ==
    ParseCampLines(camp_text,
        [name |-> <<"Bilinmeyen Camping">>, address |-> <<"Adres bilgisi yok">>,
         site_url |-> <<>>, latitude |-> DefaultLat, longitude |-> DefaultLon])

\* Mutant of _create_daily_plan_from_camp: the entry is numbered from 0.
_create_daily_plan_zero_based(camp_info, day, td) ==
    IF ~ParsesAsDate(td.start_date) \/ ~AddDaysOK(strptime(td.start_date), day - 1)
    THEN [ok |-> FALSE, val |-> JNull]
    ELSE [ok |-> TRUE,
          val |-> JDict([
            day |-> JInt(day - 1),
            date |-> JStr(strftime(strptime(td.start_date) + (day - 1))),
            location |-> JDict([
                name |-> JStr(DictGet(camp_info, "name", <<"Camping ", ToString(day)>>)),
                address |-> JStr(DictGet(camp_info, "address", <<"Adres bilgisi yok">>)),
                site_url |-> JStr(DictGet(camp_info, "site_url", <<>>)),
                latitude |-> JNum(DictGet(camp_info, "latitude", DefaultLat)),
                longitude |-> JNum(DictGet(camp_info, "longitude", DefaultLon))])])]

\* _create_daily_plan_from_camp: [ok, val]; ok is FALSE when strptime or the
\* date addition raises.
_create_daily_plan_from_camp(camp_info, day, td) ==
    IF ~ParsesAsDate(td.start_date) \/ ~AddDaysOK(strptime(td.start_date), day - 1)
    THEN [ok |-> FALSE, val |-> JNull]
    ELSE [ok |-> TRUE,
          val |-> JDict([
            day |-> JInt(day),
            date |-> JStr(strftime(strptime(td.start_date) + (day - 1))),
            location |-> JDict([
                name |-> JStr(DictGet(camp_info, "name", <<"Camping ", ToString(day)>>)),
                address |-> JStr(DictGet(camp_info, "address", <<"Adres bilgisi yok">>)),
                site_url |-> JStr(DictGet(camp_info, "site_url", <<>>)),
                latitude |-> JNum(DictGet(camp_info, "latitude", DefaultLat)),
                longitude |-> JNum(DictGet(camp_info, "longitude", DefaultLon))])])]

\* Mutant of Blocks: the pattern without its end-of-text alternative, which
\* finds no end for the last block and loses it.
BlocksWithoutLast(text) ==
    LET ms == {i \in 1..Len(text) : text[i].k = "marker"}
        nth(n) == CHOOSE i \in ms : Cardinality({j \in ms : j < i}) = n - 1
        last(i) == (CHOOSE j \in ms : j > i /\ \A l \in ms : l > i => l >= j) - 1
    IN  [n \in 1..Max(0, Cardinality(ms) - 1) |-> SubSeq(text, nth(n) + 1, last(nth(n)))]

\* re.findall(camp_pattern, text): the lines after each marker, up to the next
\* marker or the end of the text.
Blocks(text) ==
    LET ms == {i \in 1..Len(text) : text[i].k = "marker"}
        nth(n) == CHOOSE i \in ms : Cardinality({j \in ms : j < i}) = n - 1
        last(i) == IF \E j \in ms : j > i
                   THEN (CHOOSE j \in ms : j > i /\ \A l \in ms : l > i => l >= j) - 1
                   ELSE Len(text)
    IN  [n \in 1..Cardinality(ms) |-> SubSeq(text, nth(n) + 1, last(nth(n)))]

\* One step of the line scan (the branch taken when no marker is found).
\* st = [cur, plans, raised]: current_camp, daily_plans, an exception raised.
ScanLine(st, l, td) ==
    IF st.raised THEN st
    ELSE CASE l.k = "isim" ->
                IF DOMAIN st.cur # {}
                THEN LET p == _create_daily_plan_from_camp(st.cur, Len(st.plans) + 1, td)
                     IN  IF p.ok
                         THEN [cur |-> DictPut(EmptyDict, "name", l.v),
                               plans |-> Append(st.plans, p.val), raised |-> FALSE]
                         ELSE [st EXCEPT !.raised = TRUE]
                ELSE [st EXCEPT !.cur = DictPut(EmptyDict, "name", l.v)]
           [] l.k = "adres" -> [st EXCEPT !.cur = DictPut(st.cur, "address", l.v)]
           [] l.k = "web" -> [st EXCEPT !.cur = DictPut(st.cur, "site_url", l.v)]
           [] l.k = "latitude" ->
                [st EXCEPT !.cur = DictPut(st.cur, "latitude",
                                     IF IsFloat(l.v) THEN FloatOf(l.v) ELSE DefaultLat)]
           [] l.k = "longitude" ->
                [st EXCEPT !.cur = DictPut(st.cur, "longitude",
                                     IF IsFloat(l.v) THEN FloatOf(l.v) ELSE DefaultLon)]
           [] OTHER -> st

RECURSIVE ScanLines(_, _, _)
ScanLines(lines, st, td) ==
    IF lines = <<>> THEN st
    ELSE ScanLines(Tail(lines), ScanLine(st, Head(lines), td), td)

\* The whole line-scan branch, the last camp included (lines 371-397).
ScanCamps(text, td) ==
    LET st == ScanLines(text, [cur |-> EmptyDict, plans |-> <<>>, raised |-> FALSE], td)
    IN  IF st.raised \/ DOMAIN st.cur = {} THEN st
        ELSE LET p == _create_daily_plan_from_camp(st.cur, Len(st.plans) + 1, td)
             IN  IF p.ok THEN [st EXCEPT !.plans = Append(st.plans, p.val)]
                 ELSE [st EXCEPT !.raised = TRUE]

\* The marker branch (lines 399-403): one entry per block of camps[:total_days].
RECURSIVE BlockCamps(_, _, _)
BlockCamps(camps, n, td) ==
    IF n = 0 THEN [plans |-> <<>>, raised |-> FALSE]
    ELSE LET before == BlockCamps(camps, n - 1, td)
             p == _create_daily_plan_from_camp(_parse_camp_text(camps[n]), n, td)
         IN  IF before.raised \/ ~p.ok THEN [plans |-> before.plans, raised |-> TRUE]
             ELSE [plans |-> Append(before.plans, p.val), raised |-> FALSE]

\* The entry added when nothing was extracted (lines 406-417).
DefaultPlan(td) ==
    JDict([day |-> JInt(1), date |-> JStr(td.start_date),
           location |-> JDict([
               name |-> JStr(<<"Varsayilan Kamp Alani">>),
               address |-> JStr(td.start_position \o <<" yakini kamp alani">>),
               site_url |-> JStr(<<>>),
               latitude |-> JNum(DefaultLat), longitude |-> JNum(DefaultLon)])])

\* The entry returned by the exception handler (lines 421-433).
ExceptPlan(td) ==
    JDict([day |-> JInt(1), date |-> JStr(td.start_date),
           location |-> JDict([
               name |-> JStr(<<"Varsayilan Kamp Alani">>),
               address |-> JStr(td.start_position \o <<" yakini">>),
               site_url |-> JStr(<<>>),
               latitude |-> JNum(DefaultLat), longitude |-> JNum(DefaultLon)])])

\* _extract_camp_info: the daily_plan list extracted from a research text.
_extract_camp_info(research_text, td) ==
    LET camps == Blocks(research_text)
        got == IF Len(camps) = 0
               THEN ScanCamps(research_text, td)
               ELSE LET taken == PySlice(camps, td.total_days)
                    IN  BlockCamps(taken, Len(taken), td)
        daily_plans == IF got.plans = <<>> THEN <<DefaultPlan(td)>> ELSE got.plans
    IN  IF got.raised THEN <<ExceptPlan(td)>>
        ELSE PySlice(daily_plans, td.total_days)

\* The "trip" mapping of one option (lines 335-344 and 504-513).
TripOf(td, theme, total_days) ==
    JDict([user_id |-> JStr(td.user_id),
           name |-> JStr(td.name \o <<" - ">> \o theme),
           description |-> JStr(td.description),
           start_position |-> JStr(td.start_position),
           end_position |-> JStr(td.end_position),
           start_date |-> JStr(td.start_date),
           end_date |-> JStr(td.end_date),
           total_days |-> JInt(total_days)])

\* One trip_option of _create_json_from_research (lines 323-348).
OptionFromResearch(item, td) ==
    LET theme_data == theme_info(item[1])
    IN  JDict([theme |-> JStr(theme_data.theme),
               description |-> JStr(theme_data.description),
               trip |-> TripOf(td, theme_data.theme, td.total_days),
               daily_plan |-> JList(_extract_camp_info(item[2], td))])

\* Mutant of _create_json_from_research: a theme whose text yields no camp is
\* left out of the document instead of getting the default entry.
_create_json_skipping_empty(results, td) ==
    LET Extracted(item) == _extract_camp_info(item[2], td) # <<DefaultPlan(td)>>
        kept == SelectSeq(results, Extracted)
    IN  JsonDumps(JDict([trip_options |->
            JList([i \in 1..Len(kept) |-> OptionFromResearch(kept[i], td)])]))

\* _create_json_from_research: research_results is the list of
\* (agent_name, research_text) items of the dict, in insertion order.
_create_json_from_research(results, td) ==
    JsonDumps(JDict([trip_options |->
        JList([i \in 1..Len(results) |-> OptionFromResearch(results[i], td)])]))

\* Per-theme words of the placeholder locations of _create_fallback_json.
FallbackWord(a) ==
    CASE a = "dogal" -> <<"Dogal">>
      [] a = "tarihi" -> <<"Tarihi">>
      [] a = "macera" -> <<"Macera">>

FallbackWordLower(a) ==
    CASE a = "dogal" -> <<"dogal">>
      [] a = "tarihi" -> <<"tarihi">>
      [] a = "macera" -> <<"macera">>

\* One option of _create_fallback_json: the i-th of the three literals.
FallbackOption(i, td, total_days) ==
    LET a == AgentNames[i]
    IN  JDict([theme |-> JStr(ThemeName(a)),
               description |-> JStr(ThemeDescription(a)),
               trip |-> TripOf(td, ThemeName(a), total_days),
               daily_plan |-> JList(<<
                   JDict([day |-> JInt(1), date |-> JStr(td.start_date),
                          location |-> JDict([
                              name |-> JStr(<<"Varsayilan ">> \o FallbackWord(a) \o <<" Kamp Alani">>),
                              address |-> JStr(td.start_position \o <<" yakini ">> \o
                                               FallbackWordLower(a) \o <<" kamp alani">>),
                              site_url |-> JStr(<<>>),
                              latitude |-> JNum(DefaultLat + (i - 1)),
                              longitude |-> JNum(DefaultLon + (i - 1))])])>>)])

\* Mutant of _create_fallback_json: only the first of the three literals is
\* written.
_create_fallback_json_first_only(td) ==
    LET total_days == IF ParsesAsDate(td.start_date) /\ ParsesAsDate(td.end_date)
                      THEN strptime(td.end_date) - strptime(td.start_date) + 1
                      ELSE FallbackTotalDays
    IN  JsonDumps(JDict([trip_options |->
            JList(<<FallbackOption(1, td, total_days)>>)]))

\* Mutant of _create_fallback_json: the document is one plan, a mapping with
\* theme, trip and daily_plan and no trip_options list around it.
_create_fallback_json_single_plan(td) ==
    LET total_days == IF ParsesAsDate(td.start_date) /\ ParsesAsDate(td.end_date)
                      THEN strptime(td.end_date) - strptime(td.start_date) + 1
                      ELSE FallbackTotalDays
    IN  JsonDumps(FallbackOption(1, td, total_days))

\* _create_fallback_json: total_days from the dates, 3 when they do not parse.
_create_fallback_json(td) ==
    LET total_days == IF ParsesAsDate(td.start_date) /\ ParsesAsDate(td.end_date)
                      THEN strptime(td.end_date) - strptime(td.start_date) + 1
                      ELSE FallbackTotalDays
    IN  JsonDumps(JDict([trip_options |->
            JList([i \in 1..K |-> FallbackOption(i, td, total_days)])]))

\* research_results[agent_name] = result, on the ordered items of the dict.
DictSetItem(items, key, value) ==
    IF \E i \in 1..Len(items) : items[i][1] = key
    THEN [i \in 1..Len(items) |-> IF items[i][1] = key THEN <<key, value>> ELSE items[i]]
    ELSE Append(items, <<key, value>>)

\* ------------------------------------------------------------ requests
StartDates == {Unpadded(1), Padded(MaxOrd), BadDate}
EndDates == {Padded(o) : o \in 0..MaxOrd} \cup {BadDate}

\* The PromptRequest messages the service is driven with.
Requests ==
    [user_id : {<<"user-1">>}, name : {<<"Ege Turu">>}, description : {<<"yaz gezisi">>},
     start_position : {<<"Ankara">>}, end_position : {<<"Izmir">>},
     start_date : StartDates, end_date : EndDates]

Unset == [t |-> "unset", v |-> <<>>]

\* ---------------------------------------------------- protobuf messages
\* A str a protobuf string field can encode as UTF-8.
Encodable(s) == \A n \in 1..Len(s) : s[n] # LoneSurrogate

\* A value a protobuf string field accepts (None leaves the field unset).
StrFieldOK(x) == x.t = "null" \/ (x.t = "str" /\ Encodable(x.v))
StrFieldVal(x) == IF x.t = "null" THEN <<>> ELSE x.v
\* A value a protobuf int32 field accepts.
IntFieldOK(x) == x.t = "null" \/ x.t = "int"
IntFieldVal(x) == IF x.t = "null" THEN 0 ELSE x.v

\* dict.get(key, default) on a JSON mapping.
JGet(d, key, default) == IF key \in DOMAIN d.v THEN d.v[key] ELSE default

IntText(n) == <<"int", ToString(n)>>
IsIntText(s) == \E n \in 0..(MaxOrd + 1) : s = IntText(n)
IntOfText(s) == CHOOSE n \in 0..(MaxOrd + 1) : s = IntText(n)

\* float(x) succeeds / its value in tenths.
FloatConvOK(x) == x.t \in {"float", "int"} \/ (x.t = "str" /\ IsFloat(x.v))
FloatConv(x) ==
    CASE x.t = "float" -> x.v
      [] x.t = "int" -> 10 * x.v
      [] OTHER -> FloatOf(x.v)

\* int(x) succeeds / its value.
IntConvOK(x) == x.t \in {"int", "float"} \/ (x.t = "str" /\ IsIntText(x.v))
IntConv(x) ==
    CASE x.t = "int" -> x.v
      [] x.t = "float" -> IF x.v >= 0 THEN x.v \div 10 ELSE -((-x.v) \div 10)
      [] OTHER -> IntOfText(x.v)

\* The literal date of the substituted entry (grpc_server.py line 164).
DefaultDate == Padded(0)

\* The entry substituted when converting entry j of option i raised
\* (lines 159-174); i and j count from 1 here.
SubstituteDaily(i, j) ==
    [day |-> j, date |-> DefaultDate,
     location |-> [name |-> <<"Varsayilan Kamp Alani ", ToString(j)>>,
                   address |-> <<"Varsayilan adres">>, site_url |-> <<>>,
                   latitude |-> DefaultLat + (i - 1), longitude |-> DefaultLon + (i - 1),
                   notes |-> <<"Hata nedeniyle varsayilan konum">>]]

\* Lines 124-156 complete without raising for this entry.
DailyConvertible(daily, j) ==
    /\ daily.t = "dict"
    /\ JGet(daily, "location", JDict(EmptyDict)).t = "dict"
    /\ IntFieldOK(JGet(daily, "day", JInt(j)))
    /\ StrFieldOK(JGet(daily, "date", JStr(<<>>)))
    /\ LET loc == JGet(daily, "location", JDict(EmptyDict))
       IN  /\ StrFieldOK(JGet(loc, "name", JStr(<<>>)))
           /\ StrFieldOK(JGet(loc, "address", JStr(<<>>)))
           /\ StrFieldOK(JGet(loc, "site_url", JStr(<<>>)))
           /\ StrFieldOK(JGet(loc, "notes", JStr(<<>>)))

\* latitude / longitude of lines 127-142.
Coordinate(loc, key, fallback) ==
    IF key \in DOMAIN loc.v
    THEN IF FloatConvOK(loc.v[key]) THEN FloatConv(loc.v[key]) ELSE fallback
    ELSE 0

\* One DailyPlan message (lines 122-175).
ConvertDaily(daily, i, j) ==
    IF ~DailyConvertible(daily, j) THEN SubstituteDaily(i, j)
    ELSE LET loc == JGet(daily, "location", JDict(EmptyDict))
         IN  [day |-> IntFieldVal(JGet(daily, "day", JInt(j))),
              date |-> StrFieldVal(JGet(daily, "date", JStr(<<>>))),
              location |-> [
                name |-> StrFieldVal(JGet(loc, "name", JStr(<<"Kamp Alani ", ToString(j)>>))),
                address |-> StrFieldVal(JGet(loc, "address", JStr(<<"Adres bilgisi yok">>))),
                site_url |-> StrFieldVal(JGet(loc, "site_url", JStr(<<>>))),
                latitude |-> Coordinate(loc, "latitude", DefaultLat + (i - 1)),
                longitude |-> Coordinate(loc, "longitude", DefaultLon + (i - 1)),
                notes |-> StrFieldVal(JGet(loc, "notes", JStr(<<>>)))]]

\* The items the loop of line 122 iterates over: the elements of a list, the
\* characters of a str, the keys of a dict.
IterItems(x) ==
    CASE x.t = "list" -> x.v
      [] x.t = "str" -> [n \in 1..Len(x.v) |-> JStr(<<x.v[n]>>)]
      [] x.t = "dict" -> [n \in 1..Cardinality(DOMAIN x.v) |-> JStr(<<"key">>)]
      [] OTHER -> <<>>

\* daily_plans of option i (lines 117-175).
ConvertDailyPlans(option, i) ==
    LET items == IterItems(JGet(option, "daily_plan", JList(<<>>)))
    IN  [j \in 1..Len(items) |-> ConvertDaily(items[j], i, j)]

\* total_days of lines 183-189.
ConvertTotalDays(trip, daily_plans) ==
    IF "total_days" \in DOMAIN trip.v
    THEN IF IntConvOK(trip.v["total_days"]) THEN IntConv(trip.v["total_days"])
         ELSE IF daily_plans # <<>> THEN Len(daily_plans) ELSE 1
    ELSE 1

TripStringFields ==
    {"user_id", "name", "description", "start_position", "end_position",
     "start_date", "end_date", "route_summary"}

\* Lines 114-212 complete without raising for this option.
OptionConvertible(option) ==
    /\ option.t = "dict"
    /\ JGet(option, "daily_plan", JList(<<>>)).t \in {"list", "str", "dict"}
    /\ JGet(option, "trip", JDict(EmptyDict)).t = "dict"
    /\ \A f \in TripStringFields :
          StrFieldOK(JGet(JGet(option, "trip", JDict(EmptyDict)), f, JStr(<<>>)))
    /\ StrFieldOK(JGet(option, "theme", JStr(<<>>)))
    /\ StrFieldOK(JGet(option, "description", JStr(<<>>)))

\* One TripOption message (lines 112-212), for a convertible option.
ConvertOption(option, i) ==
    LET daily_plans == ConvertDailyPlans(option, i)
        trip == JGet(option, "trip", JDict(EmptyDict))
    IN  [theme |-> StrFieldVal(JGet(option, "theme", JStr(<<"Tema ", ToString(i)>>))),
         description |-> StrFieldVal(JGet(option, "description", JStr(<<>>))),
         trip |-> [user_id |-> StrFieldVal(JGet(trip, "user_id", JStr(<<>>))),
                   name |-> StrFieldVal(JGet(trip, "name", JStr(<<"Tema ", ToString(i)>>))),
                   description |-> StrFieldVal(JGet(trip, "description", JStr(<<>>))),
                   start_position |-> StrFieldVal(JGet(trip, "start_position", JStr(<<>>))),
                   end_position |-> StrFieldVal(JGet(trip, "end_position", JStr(<<>>))),
                   start_date |-> StrFieldVal(JGet(trip, "start_date", JStr(<<>>))),
                   end_date |-> StrFieldVal(JGet(trip, "end_date", JStr(<<>>))),
                   total_days |-> ConvertTotalDays(trip, daily_plans),
                   route_summary |-> StrFieldVal(JGet(trip, "route_summary", JStr(<<>>)))],
         daily_plan |-> daily_plans]

\* The loop of lines 112-217: an option whose conversion raises is skipped.
RECURSIVE ConvertOptions(_, _)
ConvertOptions(options, n) ==
    IF n = 0 THEN <<>>
    ELSE IF OptionConvertible(options[n])
         THEN Append(ConvertOptions(options, n - 1), ConvertOption(options[n], n))
         ELSE ConvertOptions(options, n - 1)

\* _create_empty_options_response
_create_empty_options_response == [trip_options |-> <<>>]

\* _create_trip_options_response, for a parsed mapping. A trip_options value
\* that is no list converts no option (its items have no .get, or enumerate
\* raises), which ends in the empty response as well.
_create_trip_options_response(parsed_data) ==
    LET options_data == JGet(parsed_data, "trip_options", JList(<<>>))
    IN  IF options_data.t # "list" \/ options_data.v = <<>>
        THEN _create_empty_options_response
        ELSE [trip_options |-> ConvertOptions(options_data.v, Len(options_data.v))]

\* theme_info['theme'].lower()
ThemeLower(a) ==
    CASE a = "dogal" -> <<"dogal guzellikler rotasi">>
      [] a = "tarihi" -> <<"tarihi guzellikler rotasi">>
      [] a = "macera" -> <<"macera ve aksiyon rotasi">>

\* total_days of every option of the boundary fallback (line 264).
BoundaryTotalDays == 3

\* One TripOption of _create_fallback_options_response (lines 254-293).
BoundaryFallbackOption(req, i) ==
    LET a == AgentNames[i]
    IN  [theme |-> ThemeName(a),
         description |-> ThemeDescription(a),
         trip |-> [user_id |-> req.user_id,
                   name |-> ThemeName(a) \o <<" - ">> \o req.name,
                   description |-> ThemeDescription(a),
                   start_position |-> req.start_position,
                   end_position |-> req.end_position,
                   start_date |-> req.start_date,
                   end_date |-> req.end_date,
                   total_days |-> BoundaryTotalDays,
                   route_summary |-> req.start_position \o <<" - ">> \o req.end_position
                                     \o <<" ">> \o ThemeLower(a)],
         daily_plan |-> <<
            [day |-> 1, date |-> req.start_date,
             location |-> [name |-> FallbackWord(a) \o <<" Kamp Alani">>,
                           address |-> req.start_position \o <<" yakini ">> \o ThemeLower(a)
                                       \o <<" temali kamp alani">>,
                           site_url |-> <<>>,
                           latitude |-> DefaultLat + (i - 1),
                           longitude |-> DefaultLon + (i - 1),
                           notes |-> <<"Varsayilan ">> \o ThemeLower(a)
                                     \o <<" temali kamp alani">>]]>>]

\* Mutant of _create_fallback_options_response: the empty response in place
\* of the three theme options.
_create_fallback_options_response_empty(req) ==
    [trip_options |-> <<>>]

\* _create_fallback_options_response
_create_fallback_options_response(req) ==
    [trip_options |-> [i \in 1..K |-> BoundaryFallbackOption(req, i)]]

\* json.loads(ai_response) raises JSONDecodeError.
JsonLoadsFails(text) == text.kind # "json"
\* json.loads(ai_response)
JsonLoads(text) == text.val

\* 'trip_options' not in parsed_response raises TypeError.
MembershipRaises(parsed) == parsed.t \in {"null", "int", "float"}
\* 'trip_options' in parsed_response
HasTripOptions(parsed) ==
    CASE parsed.t = "dict" -> "trip_options" \in DOMAIN parsed.v
      [] parsed.t = "list" ->
            \E n \in 1..Len(parsed.v) :
                parsed.v[n].t = "str" /\ parsed.v[n].v = <<"trip_options">>
      [] parsed.t = "str" -> \E n \in 1..Len(parsed.v) : parsed.v[n] = "trip_options"
      [] OTHER -> FALSE

\* Mutant of GeneratePlanResult: a list whose length is not K is rejected as
\* the empty list is.
GeneratePlanResultStrictCount(req, text) ==
    IF JsonLoadsFails(text)
    THEN [response |-> _create_fallback_options_response(req), code |-> "OK",
          branch |-> "decode-error"]
    ELSE LET parsed == JsonLoads(text)
         IN  IF MembershipRaises(parsed)
             THEN [response |-> _create_fallback_options_response(req),
                   code |-> "INTERNAL", branch |-> "exception"]
             ELSE IF ~HasTripOptions(parsed)
             THEN [response |-> _create_fallback_options_response(req), code |-> "OK",
                   branch |-> "no-key"]
             ELSE IF parsed.t # "dict"
             THEN [response |-> _create_fallback_options_response(req),
                   code |-> "INTERNAL", branch |-> "exception"]
             ELSE IF parsed.v["trip_options"].t # "list"
             THEN [response |-> _create_fallback_options_response(req), code |-> "OK",
                   branch |-> "not-a-list"]
             ELSE IF Len(parsed.v["trip_options"].v) # K
             THEN [response |-> _create_fallback_options_response(req), code |-> "OK",
                   branch |-> "empty-list"]
             ELSE [response |-> _create_trip_options_response(parsed), code |-> "OK",
                   branch |-> "converted"]

\* AIService.GeneratePlan from the document the agent returned on: the
\* response, the status code set on the context and the branch taken.
GeneratePlanResult(req, text) ==
    IF JsonLoadsFails(text)
    THEN [response |-> _create_fallback_options_response(req), code |-> "OK",
          branch |-> "decode-error"]
    ELSE LET parsed == JsonLoads(text)
         IN  IF MembershipRaises(parsed)
             THEN [response |-> _create_fallback_options_response(req),
                   code |-> "INTERNAL", branch |-> "exception"]
             ELSE IF ~HasTripOptions(parsed)
             THEN [response |-> _create_fallback_options_response(req), code |-> "OK",
                   branch |-> "no-key"]
             ELSE IF parsed.t # "dict"
             THEN [response |-> _create_fallback_options_response(req),
                   code |-> "INTERNAL", branch |-> "exception"]
             ELSE IF parsed.v["trip_options"].t # "list"
             THEN [response |-> _create_fallback_options_response(req), code |-> "OK",
                   branch |-> "not-a-list"]
             ELSE IF parsed.v["trip_options"].v = <<>>
             THEN [response |-> _create_fallback_options_response(req), code |-> "OK",
                   branch |-> "empty-list"]
             ELSE [response |-> _create_trip_options_response(parsed), code |-> "OK",
                   branch |-> "converted"]

\* ------------------------------------------------------------- the service
TypeOK ==
    /\ request \in Requests
    /\ pc \in {"idle", "plan", "research", "blocked", "boundary", "done"}
    /\ idx \in 0..(K + 1)
    /\ status_code \in {"OK", "INTERNAL"}

Init ==
    /\ request \in Requests
    /\ pc = "idle"
    /\ prompt_data = Unset
    /\ trip_data = Unset
    /\ idx = 0
    /\ research_results = <<>>
    /\ calls = <<>>
    /\ outcomes = <<>>
    /\ ai_response = Unset
    /\ response = Unset
    /\ status_code = "OK"
    /\ branch = "none"

\* GeneratePlan builds prompt_data and calls the agent (lines 39-52).
GeneratePlanBegin ==
    /\ pc = "idle"
    /\ prompt_data' = request
    /\ pc' = "plan"
    /\ UNCHANGED <<request, trip_data, idx, research_results, calls, outcomes,
                   ai_response, response, status_code, branch>>

\* (end_date - start_date).days + 1
TotalDays(pd) == strptime(pd.end_date) - strptime(pd.start_date) + 1

\* {**prompt_data, 'total_days': total_days}
TripData(pd, total_days) ==
    [f \in DOMAIN pd \cup {"total_days"} |-> IF f = "total_days" THEN total_days ELSE pd[f]]

\* generate_trip_plan, lines 261-269: both dates parse.
PlanDates ==
    /\ pc = "plan"
    /\ ParsesAsDate(prompt_data.start_date) /\ ParsesAsDate(prompt_data.end_date)
    /\ trip_data' = TripData(prompt_data, TotalDays(prompt_data))
    /\ idx' = 1
    /\ pc' = "research"
    /\ UNCHANGED <<request, prompt_data, research_results, calls, outcomes,
                   ai_response, response, status_code, branch>>

\* Mutant of PlanFallback: the exception of strptime leaves generate_trip_plan
\* and the handler thread instead of being answered with the fallback.
PlanFallbackPropagates ==
    /\ pc = "plan"
    /\ ~(ParsesAsDate(prompt_data.start_date) /\ ParsesAsDate(prompt_data.end_date))
    /\ pc' = "raised"
    /\ UNCHANGED <<request, prompt_data, trip_data, idx, research_results, calls,
                   outcomes, ai_response, response, status_code, branch>>

\* generate_trip_plan, lines 282-284: strptime raised.
PlanFallback ==
    /\ pc = "plan"
    /\ ~(ParsesAsDate(prompt_data.start_date) /\ ParsesAsDate(prompt_data.end_date))
    /\ ai_response' = _create_fallback_json(prompt_data)
    /\ pc' = "boundary"
    /\ UNCHANGED <<request, prompt_data, trip_data, idx, research_results, calls,
                   outcomes, response, status_code, branch>>

\* Mutant of NextIdx: a raised failure ends the loop.
NextIdxAbortOnFailure(i, outcome) ==
    IF outcome.kind = "raises" THEN K + 1 ELSE i + 1

\* The loop index after the iteration for one agent.
NextIdx(i, outcome) == i + 1

\* One iteration of the loop of _run_research_parallel (lines 291-299).
Research ==
    /\ pc = "research"
    /\ idx <= K
    /\ \E o \in Outcomes :
          /\ research_results' =
                DictSetItem(research_results, AgentNames[idx], research_camps(AgentNames[idx], o))
          /\ calls' = Append(calls, AgentNames[idx])
          /\ outcomes' = Append(outcomes, o)
          /\ idx' = NextIdx(idx, o)
    /\ UNCHANGED <<request, pc, prompt_data, trip_data, ai_response, response,
                   status_code, branch>>

\* generate_trip_plan, lines 277-280: the loop is over, the document is built.
Assemble ==
    /\ pc = "research"
    /\ idx > K
    /\ ai_response' = _create_json_from_research(research_results, trip_data)
    /\ pc' = "boundary"
    /\ UNCHANGED <<request, prompt_data, trip_data, idx, research_results, calls,
                   outcomes, response, status_code, branch>>

\* GeneratePlan, lines 53-96: the document is parsed, checked and converted.
GeneratePlanReturn ==
    /\ pc = "boundary"
    /\ LET r == GeneratePlanResult(request, ai_response)
       IN  /\ response' = r.response
           /\ status_code' = r.code
           /\ branch' = r.branch
    /\ pc' = "done"
    /\ UNCHANGED <<request, prompt_data, trip_data, idx, research_results, calls,
                   outcomes, ai_response>>

Next ==
    \/ GeneratePlanBegin
    \/ PlanDates
    \/ PlanFallback
    \/ Research
    \/ Assemble
    \/ GeneratePlanReturn

Spec == Init /\ [][Next]_vars

\* ------------------------------------- GeneratePlan on any document text
\* GeneratePlan as a function of the request and of the text that
\* self.agent.generate_trip_plan hands back, the text drawn from a bounded
\* set of documents: texts that are no JSON, JSON values of every top-level
\* kind, and trip_options lists of up to MaxOptions entries.
MaxOptions == 3

\* trip_data of the sample options below.
SampleTripData ==
    TripData([user_id |-> <<"user-1">>, name |-> <<"Ege Turu">>,
              description |-> <<"yaz gezisi">>, start_position |-> <<"Ankara">>,
              end_position |-> <<"Izmir">>, start_date |-> Padded(1),
              end_date |-> Padded(2)], 2)

\* An option as the orchestrator writes it, with two entries.
GoodOption == OptionFromResearch(<<"dogal", BlockText(2)>>, SampleTripData)

SampleOptions ==
    { GoodOption,
      \* not a mapping
      JStr(<<"oops">>),
      \* "trip": null
      JDict([theme |-> JStr(<<"Tema">>), trip |-> JNull, daily_plan |-> JList(<<>>)]),
      \* an entry that is no mapping, an entry whose day is a string
      JDict([theme |-> JStr(<<"Tema">>),
             trip |-> JDict([total_days |-> JStr(<<"many">>)]),
             daily_plan |-> JList(<<JStr(<<"day one">>),
                                    JDict([day |-> JStr(<<"2">>)]),
                                    JDict([day |-> JInt(1), date |-> JStr(Padded(2))])>>)]),
      \* every key missing
      JDict(EmptyDict),
      \* total_days written as a string
      JDict([trip |-> JDict([total_days |-> JStr(IntText(2))]),
             daily_plan |-> JList(<<JDict([location |-> JDict([latitude |-> JStr(<<"north">>)])])>>)]) }

RECURSIVE OptionLists(_)
OptionLists(n) ==
    IF n = 0 THEN {<<>>}
    ELSE OptionLists(n - 1) \cup
         {Append(l, o) : l \in {x \in OptionLists(n - 1) : Len(x) = n - 1}, o \in SampleOptions}

Documents ==
    {NotJson} \cup
    {JsonDumps(v) : v \in
        { JNull, JInt(5), JStr(<<"plan">>), JStr(<<"trip_options">>), JList(<<>>),
          JList(<<JStr(<<"trip_options">>)>>), JDict(EmptyDict),
          JDict([trip_options |-> JNull]), JDict([trip_options |-> JStr(<<"none">>)]),
          JDict([trip |-> JNull]) }} \cup
    {JsonDumps(JDict([trip_options |-> JList(l)])) : l \in OptionLists(MaxOptions)}

\* self.agent.generate_trip_plan(prompt_data) hands back a document text.
AgentReturns ==
    /\ pc = "idle"
    /\ prompt_data' = request
    /\ \E d \in Documents : ai_response' = d
    /\ pc' = "boundary"
    /\ UNCHANGED <<request, trip_data, idx, research_results, calls, outcomes,
                   response, status_code, branch>>

NextBoundary ==
    \/ AgentReturns
    \/ GeneratePlanReturn

SpecBoundary == Init /\ [][NextBoundary]_vars

\* ------------------------------------------- a failure inside the assembly
\* _create_json_from_research, lines 356-358: an exception raised inside its
\* try block (lines 305-354) is caught and the document is
\* _create_fallback_json(trip_data).
AssembleRaises ==
    /\ pc = "research"
    /\ idx > K
    /\ ai_response' = _create_fallback_json(trip_data)
    /\ pc' = "boundary"
    /\ UNCHANGED <<request, prompt_data, trip_data, idx, research_results, calls,
                   outcomes, response, status_code, branch>>

NextFaults ==
    \/ Next
    \/ AssembleRaises

SpecFaults == Init /\ [][NextFaults]_vars

\* ------------------------------------ a generation call that never returns
\* _run_research_parallel, line 294: agent.research_camps(trip_data) is called
\* in the request's own thread with no timeout around it (agent.run, line
\* 223); a call that never returns leaves the loop at that line for ever.
ResearchBlocks ==
    /\ pc = "research"
    /\ idx <= K
    /\ calls' = Append(calls, AgentNames[idx])
    /\ pc' = "blocked"
    /\ UNCHANGED <<request, prompt_data, trip_data, idx, research_results, outcomes,
                   ai_response, response, status_code, branch>>

NextLive ==
    \/ Next
    \/ ResearchBlocks

\* The thread that serves a request takes its next step whenever it has one.
SpecLive == Init /\ [][NextLive]_vars /\ WF_vars(NextLive)

\* ------------------------------------------------ concurrent GeneratePlan
\* serve registers one AIService on a thread pool: GeneratePlan runs in
\* several threads on the same self. In this specification every variable is
\* a function from the thread to the value the variable has in that thread's
\* request; the objects the threads share (self.agent, its researchers and
\* their agents) are not written by any statement of the request.
Threads == {1, 2}

FirstRequest ==
    [user_id |-> <<"user-1">>, name |-> <<"Ege Turu">>, description |-> <<"yaz gezisi">>,
     start_position |-> <<"Ankara">>, end_position |-> <<"Izmir">>,
     start_date |-> Padded(0), end_date |-> Padded(1)]

SecondRequests ==
    {[user_id |-> <<"user-2">>, name |-> <<"Karadeniz Turu">>,
      description |-> <<"kis gezisi">>, start_position |-> <<"Bursa">>,
      end_position |-> <<"Rize">>, start_date |-> Padded(1), end_date |-> e] :
        e \in {Padded(1), BadDate}}

\* What agent.run does in the concurrent requests.
ConcurrentOutcomes ==
    { [kind |-> "returns", text |-> BlockText(2)],
      [kind |-> "nothing", text |-> <<>>],
      [kind |-> "raises", text |-> <<Line("other", <<"connection refused">>)>>] }

InitConcurrent ==
    /\ request \in {[t \in Threads |-> IF t = 1 THEN FirstRequest ELSE r] :
                       r \in SecondRequests}
    /\ pc = [t \in Threads |-> "idle"]
    /\ prompt_data = [t \in Threads |-> Unset]
    /\ trip_data = [t \in Threads |-> Unset]
    /\ idx = [t \in Threads |-> 0]
    /\ research_results = [t \in Threads |-> <<>>]
    /\ calls = [t \in Threads |-> <<>>]
    /\ outcomes = [t \in Threads |-> <<>>]
    /\ ai_response = [t \in Threads |-> Unset]
    /\ response = [t \in Threads |-> Unset]
    /\ status_code = [t \in Threads |-> "OK"]
    /\ branch = [t \in Threads |-> "none"]

\* Mutant of ResultsOf: the dict is kept on the shared service object.
ResultsOnService(t) == 1

\* research_results = {} (line 288) is a local of the call: the dict thread t
\* writes and reads is its own.
ResultsOf(t) == t

GeneratePlanBeginOf(t) ==
    /\ pc[t] = "idle"
    /\ prompt_data' = [prompt_data EXCEPT ![t] = request[t]]
    /\ pc' = [pc EXCEPT ![t] = "plan"]
    /\ UNCHANGED <<request, trip_data, idx, research_results, calls, outcomes,
                   ai_response, response, status_code, branch>>

PlanDatesOf(t) ==
    /\ pc[t] = "plan"
    /\ ParsesAsDate(prompt_data[t].start_date) /\ ParsesAsDate(prompt_data[t].end_date)
    /\ trip_data' = [trip_data EXCEPT ![t] = TripData(prompt_data[t], TotalDays(prompt_data[t]))]
    /\ idx' = [idx EXCEPT ![t] = 1]
    /\ pc' = [pc EXCEPT ![t] = "research"]
    /\ UNCHANGED <<request, prompt_data, research_results, calls, outcomes,
                   ai_response, response, status_code, branch>>

PlanFallbackOf(t) ==
    /\ pc[t] = "plan"
    /\ ~(ParsesAsDate(prompt_data[t].start_date) /\ ParsesAsDate(prompt_data[t].end_date))
    /\ ai_response' = [ai_response EXCEPT ![t] = _create_fallback_json(prompt_data[t])]
    /\ pc' = [pc EXCEPT ![t] = "boundary"]
    /\ UNCHANGED <<request, prompt_data, trip_data, idx, research_results, calls,
                   outcomes, response, status_code, branch>>

ResearchOf(t) ==
    /\ pc[t] = "research"
    /\ idx[t] <= K
    /\ \E o \in ConcurrentOutcomes :
          /\ research_results' =
                [research_results EXCEPT ![ResultsOf(t)] =
                    DictSetItem(research_results[ResultsOf(t)], AgentNames[idx[t]],
                                research_camps(AgentNames[idx[t]], o))]
          /\ calls' = [calls EXCEPT ![t] = Append(calls[t], AgentNames[idx[t]])]
          /\ outcomes' = [outcomes EXCEPT ![t] = Append(outcomes[t], o)]
          /\ idx' = [idx EXCEPT ![t] = NextIdx(idx[t], o)]
    /\ UNCHANGED <<request, pc, prompt_data, trip_data, ai_response, response,
                   status_code, branch>>

AssembleOf(t) ==
    /\ pc[t] = "research"
    /\ idx[t] > K
    /\ ai_response' = [ai_response EXCEPT ![t] =
          _create_json_from_research(research_results[ResultsOf(t)], trip_data[t])]
    /\ pc' = [pc EXCEPT ![t] = "boundary"]
    /\ UNCHANGED <<request, prompt_data, trip_data, idx, research_results, calls,
                   outcomes, response, status_code, branch>>

GeneratePlanReturnOf(t) ==
    /\ pc[t] = "boundary"
    /\ LET r == GeneratePlanResult(request[t], ai_response[t])
       IN  /\ response' = [response EXCEPT ![t] = r.response]
           /\ status_code' = [status_code EXCEPT ![t] = r.code]
           /\ branch' = [branch EXCEPT ![t] = r.branch]
    /\ pc' = [pc EXCEPT ![t] = "done"]
    /\ UNCHANGED <<request, prompt_data, trip_data, idx, research_results, calls,
                   outcomes, ai_response>>

\* The threads of the pool run in any order.
NextConcurrent ==
    \E t \in Threads :
        \/ GeneratePlanBeginOf(t)
        \/ PlanDatesOf(t)
        \/ PlanFallbackOf(t)
        \/ ResearchOf(t)
        \/ AssembleOf(t)
        \/ GeneratePlanReturnOf(t)

SpecConcurrent == InitConcurrent /\ [][NextConcurrent]_vars

\* ================================================================ claims
\* generate_trip_plan has returned its document.
Returned == pc \in {"boundary", "done"}
DatesParse == ParsesAsDate(request.start_date) /\ ParsesAsDate(request.end_date)
\* The trip_options list of the returned document.
DocOptions == ai_response.val.v["trip_options"].v
\* The document is a JSON mapping whose trip_options is a list.
DocIsOptionList ==
    /\ ai_response.kind = "json"
    /\ ai_response.val.t = "dict"
    /\ "trip_options" \in DOMAIN ai_response.val.v
    /\ ai_response.val.v["trip_options"].t = "list"

\* C1: whatever the three generation calls do (return a text, return
\* nothing, raise) and whatever the request, the document generate_trip_plan
\* returns holds a trip_options list of exactly K = 3 entries.
C1_ExactlyKOptions ==
    Returned => DocIsOptionList /\ Len(DocOptions) = K

\* C1 witness: a finished request in which one call returned a text, one
\* returned nothing and one raised.
C1_Witness ==
    /\ pc = "done"
    /\ Len(outcomes) = K
    /\ \E i, j, k \in 1..K :
          /\ outcomes[i].kind = "returns"
          /\ outcomes[j].kind = "nothing"
          /\ outcomes[k].kind = "raises"
    /\ Len(DocOptions) = K

\* The structural validity of one option: theme and description, a trip with
\* the eight named fields, a non-empty daily_plan whose entries carry day,
\* date and a location with name and address.
ValidEntry(e) ==
    /\ e.t = "dict"
    /\ {"day", "date", "location"} \subseteq DOMAIN e.v
    /\ e.v["location"].t = "dict"
    /\ {"name", "address"} \subseteq DOMAIN e.v["location"].v

ValidOption(o) ==
    /\ o.t = "dict"
    /\ {"theme", "description", "trip", "daily_plan"} \subseteq DOMAIN o.v
    /\ o.v["trip"].t = "dict"
    /\ {"user_id", "name", "description", "start_position", "end_position",
        "start_date", "end_date", "total_days"} \subseteq DOMAIN o.v["trip"].v
    /\ o.v["daily_plan"].t = "list"
    /\ o.v["daily_plan"].v # <<>>
    /\ \A n \in 1..Len(o.v["daily_plan"].v) : ValidEntry(o.v["daily_plan"].v[n])

\* C2: for every request whose dates parse, end_date earlier than start_date
\* included, every option of the returned document is structurally valid.
C2_OptionsValid ==
    (Returned /\ DatesParse) =>
        /\ DocIsOptionList
        /\ \A i \in 1..Len(DocOptions) : ValidOption(DocOptions[i])

\* The document does not parse or is no mapping with a non-empty
\* trip_options list.
DocumentUnusable ==
    \/ ~DocIsOptionList
    \/ DocOptions = <<>>

C5_EveryWorkerOnce ==
    Returned => calls = AgentNames

\* C5 amended: in a request whose dates parse each of the K workers is invoked
\* exactly once, in registration order, whatever the earlier workers did; a
\* request whose dates do not parse invokes no worker; at every moment the
\* invocations made are a prefix of the registration order.
C5_WorkersOnceInOrder ==
    /\ calls = SubSeq(AgentNames, 1, Len(calls))
    /\ Len(calls) <= K
    /\ (Returned /\ DatesParse) => calls = AgentNames
    /\ (Returned /\ ~DatesParse) => calls = <<>>

\* C5 witness: the first worker's call raised and the two later workers ran.
C5_Witness ==
    /\ pc = "done"
    /\ calls = AgentNames
    /\ outcomes[1].kind = "raises"
    /\ outcomes[2].kind = "returns"

\* A daily_plan that is one placeholder entry for day 1.
IsPlaceholderPlan(dp) ==
    /\ Len(dp) = 1
    /\ dp[1].v["day"] = JInt(1)
    /\ dp[1].v["location"].v["name"].v[1] \in {"Varsayilan Kamp Alani", "Varsayilan "}

\* C6: when exactly one generation call raises (total_days >= 1), the document
\* has K options in registration order, the failed theme's option carries its
\* label and the placeholder plan, and every other option is what its own
\* research text alone determines.
C6_FailureIsolation ==
    (/\ Returned
     /\ Len(outcomes) = K
     /\ Cardinality({i \in 1..K : outcomes[i].kind = "raises"}) = 1
     /\ trip_data.total_days >= 1) =>
        /\ DocIsOptionList
        /\ Len(DocOptions) = K
        /\ \A i \in 1..K :
              IF outcomes[i].kind = "raises"
              THEN /\ DocOptions[i].v["theme"] = JStr(ThemeName(AgentNames[i]))
                   /\ IsPlaceholderPlan(DocOptions[i].v["daily_plan"].v)
              ELSE DocOptions[i] =
                      OptionFromResearch(
                          <<AgentNames[i], research_camps(AgentNames[i], outcomes[i])>>,
                          trip_data)

\* C7: total_days of the trip data, of every option of the document and of
\* every option of the response equals days(end_date - start_date) + 1 and is
\* at least 1.
C7_TotalDays ==
    /\ (Returned /\ DatesParse) =>
          /\ trip_data.total_days = strptime(request.end_date) - strptime(request.start_date) + 1
          /\ trip_data.total_days >= 1
          /\ \A i \in 1..Len(DocOptions) :
                DocOptions[i].v["trip"].v["total_days"] = JInt(trip_data.total_days)
    /\ (pc = "done" /\ DatesParse) =>
          \A i \in 1..Len(response.trip_options) :
             response.trip_options[i].trip.total_days = trip_data.total_days

\* C8: in every daily_plan of the document and of the response the day values
\* are 1..N in order, N the length of the plan.
C8_DaysAreOneToN ==
    /\ Returned =>
          \A i \in 1..Len(DocOptions) :
             \A j \in 1..Len(DocOptions[i].v["daily_plan"].v) :
                DocOptions[i].v["daily_plan"].v[j].v["day"] = JInt(j)
    /\ pc = "done" =>
          \A i \in 1..Len(response.trip_options) :
             \A j \in 1..Len(response.trip_options[i].daily_plan) :
                response.trip_options[i].daily_plan[j].day = j

\* C8 witness: a finished request of two days whose three options come from
\* the marker path cut to total_days, the line scan cut to total_days and the
\* default placeholder.
C8_Witness ==
    /\ pc = "done"
    /\ Len(outcomes) = K
    /\ trip_data.total_days = 2
    /\ outcomes[1].text = BlockText(MaxCamps)
    /\ outcomes[2].text = ScanText(MaxCamps)
    /\ outcomes[3].kind = "nothing"
    /\ Len(response.trip_options[1].daily_plan) = 2
    /\ Len(response.trip_options[2].daily_plan) = 2
    /\ Len(response.trip_options[3].daily_plan) = 1

\* date is start plus (day - 1) days; for a start that is no date, the day-1
\* entry repeats the start string.
DateFollows(date, start, day) ==
    IF ParsesAsDate(start)
    THEN ParsesAsDate(date) /\ strptime(date) = strptime(start) + (day - 1)
    ELSE day = 1 /\ date = start

\* C9: every daily-plan entry of every response carries the date
\* start_date + (day - 1), substituted entries included.
C9_DatesFollowStart ==
    pc = "done" =>
        \A i \in 1..Len(response.trip_options) :
           \A j \in 1..Len(response.trip_options[i].daily_plan) :
              DateFollows(response.trip_options[i].daily_plan[j].date,
                          request.start_date,
                          response.trip_options[i].daily_plan[j].day)

\* C10: every option of the document has at least 1 and at most total_days
\* daily_plan entries.
C10_PlanLengthBounds ==
    Returned =>
        \A i \in 1..Len(DocOptions) :
           /\ Len(DocOptions[i].v["daily_plan"].v) >= 1
           /\ Len(DocOptions[i].v["daily_plan"].v) <= DocOptions[i].v["trip"].v["total_days"].v

StepsLeft ==
    CASE pc = "idle" -> K + 4
      [] pc = "plan" -> K + 3
      [] pc = "research" -> K + 3 - idx
      [] pc = "boundary" -> 1
      [] OTHER -> 0

\* The request's thread has a next step: GeneratePlanReturn and Assemble have
\* no condition beyond the position reached, the other steps are asked for.
CanStep ==
    \/ pc = "boundary"
    \/ (pc = "research" /\ idx > K)
    \/ ENABLED (GeneratePlanBegin \/ PlanDates \/ PlanFallback \/ Research \/ ResearchBlocks)

DocPlan(i) == DocOptions[i].v["daily_plan"].v
DocLocation(i) == DocPlan(i)[1].v["location"].v

\* C14: a placeholder location substituted for a theme is specific to that
\* theme: its address begins with the request's start_position, its
\* latitude and longitude are the base pair shifted by the theme's offset,
\* and the placeholders of two different themes never coincide.
C14_PlaceholderThemeSpecific ==
    Returned =>
        /\ \A i \in 1..Len(DocOptions) :
              IsPlaceholderPlan(DocPlan(i)) =>
                 /\ SubSeq(DocLocation(i)["address"].v, 1, Len(request.start_position))
                       = request.start_position
                 /\ DocLocation(i)["latitude"] = JNum(DefaultLat + (i - 1))
                 /\ DocLocation(i)["longitude"] = JNum(DefaultLon + (i - 1))
        /\ \A i, j \in 1..Len(DocOptions) :
              (i < j /\ IsPlaceholderPlan(DocPlan(i)) /\ IsPlaceholderPlan(DocPlan(j))) =>
                 DocLocation(i) # DocLocation(j)

\* The branches of GeneratePlan that answer with the boundary fallback.
FallbackBranches == {"decode-error", "exception", "no-key", "not-a-list", "empty-list"}

FallbackDocOK ==
    /\ DocIsOptionList
    /\ Len(DocOptions) = K
    /\ \A i \in 1..K :
          /\ ValidOption(DocOptions[i])
          /\ DocOptions[i].v["theme"] = JStr(ThemeName(AgentNames[i]))
          /\ IsPlaceholderPlan(DocPlan(i))
          /\ DocPlan(i)[1].v["date"] = JStr(request.start_date)

TripIsSnapshot(i) ==
    LET trip == response.trip_options[i].trip
    IN  /\ trip.user_id = request.user_id
        /\ trip.description = request.description
        /\ trip.start_position = request.start_position
        /\ trip.end_position = request.end_position
        /\ trip.start_date = request.start_date
        /\ trip.end_date = request.end_date

C18_RaisedGivesPlaceholder ==
    (Returned /\ Len(outcomes) = K /\ trip_data.total_days >= 1) =>
        \A i \in 1..K :
           outcomes[i].kind = "raises" => IsPlaceholderPlan(DocPlan(i))

C20_BoundaryFallbackShape ==
    (pc = "done" /\ DocumentUnusable) =>
        /\ branch \in FallbackBranches
        /\ Len(response.trip_options) = 3
        /\ \A i \in 1..3 :
              /\ response.trip_options[i].theme = ThemeName(AgentNames[i])
              /\ Len(response.trip_options[i].daily_plan) = 1
              /\ response.trip_options[i].daily_plan[1].day = 1
              /\ response.trip_options[i].daily_plan[1].date = request.start_date

\* C20 witness: a document whose trip_options value is no list, for a request
\* whose start_date is no date, answered with the three fallback options.
C20_Witness ==
    /\ pc = "done"
    /\ branch = "not-a-list"
    /\ request.start_date = BadDate
    /\ Len(response.trip_options) = 3
    /\ response.trip_options[3].daily_plan[1].date = BadDate

\* The research text of the i-th theme, the number of block markers in a
\* text, and a text without any field line.
ResearchText(i) == research_results[i][2]
MarkerCount(text) == Cardinality({j \in 1..Len(text) : text[j].k = "marker"})
NoFieldLine(text) == \A j \in 1..Len(text) : text[j].k = "other"
\* The k-th block of a text: the lines after its k-th marker, up to the next
\* marker or to the end of the text.
MarkerAt(text, k) ==
    CHOOSE j \in 1..Len(text) :
        text[j].k = "marker" /\ MarkerCount(SubSeq(text, 1, j)) = k
NthBlock(text, k) ==
    SubSeq(text, MarkerAt(text, k) + 1,
           IF k < MarkerCount(text) THEN MarkerAt(text, k + 1) - 1 ELSE Len(text))

\* C21: for a research text with n >= 1 blocks introduced by the marker and
\* total_days = d >= 1 the daily_plan has exactly min(n, d) entries, entry k
\* built from the k-th block in document order; for a text with no block and
\* no field line it is exactly the one default placeholder entry.
C21_BlocksGiveMinEntries ==
    (Returned /\ DatesParse /\ trip_data.total_days >= 1) =>
        \A i \in 1..K :
           LET text == ResearchText(i)
               n == MarkerCount(text)
               d == trip_data.total_days
           IN  /\ n >= 1 =>
                     /\ Len(DocPlan(i)) = Min(n, d)
                     /\ \A k \in 1..Min(n, d) :
                           /\ DocPlan(i)[k].v["day"] = JInt(k)
                           /\ DocPlan(i)[k] =
                                 _create_daily_plan_from_camp(
                                     _parse_camp_text(NthBlock(text, k)), k, trip_data).val
                           /\ text = BlockText(n) =>
                                 /\ DocPlan(i)[k].v["location"].v["name"] = JStr(CampName(k))
                                 /\ DocPlan(i)[k].v["location"].v["address"] = JStr(CampAddr(k))
               /\ (n = 0 /\ NoFieldLine(text)) =>
                     DocPlan(i) = <<DefaultPlan(trip_data)>>

\* C21 witness: a request of two days whose first theme's output has three
\* blocks and gave the entries of blocks 1 and 2, whose second theme's output
\* has one block and gave one entry, and whose third theme's text has neither
\* block nor field line and gave the default entry.
C21_Witness ==
    /\ pc = "boundary"
    /\ DatesParse
    /\ trip_data.total_days = 2
    /\ Len(outcomes) = K
    /\ outcomes[1] = [kind |-> "returns", text |-> BlockText(3)]
    /\ outcomes[2] = [kind |-> "returns", text |-> BlockText(1)]
    /\ outcomes[3].kind = "nothing"
    /\ Len(DocPlan(1)) = 2
    /\ DocPlan(1)[2].v["location"].v["name"] = JStr(CampName(2))
    /\ Len(DocPlan(2)) = 1
    /\ DocPlan(3) = <<DefaultPlan(trip_data)>>

\* Everything the request of thread u holds.
Local(u) ==
    <<request[u], pc[u], prompt_data[u], trip_data[u], idx[u], research_results[u],
      calls[u], outcomes[u], ai_response[u], response[u], status_code[u], branch[u]>>
\* The step is one of thread t.
Moved(t) == pc'[t] # pc[t] \/ idx'[t] # idx[t]

====
